---------------------------- MODULE Spec2Model ----------------------------
(***************************************************************************)
(* A model of dupes (src/dupes.go): the walk over the root directories,    *)
(* the per-entry callback check with its size / digest / byte-comparison   *)
(* stages, the byte comparator fileContentsHelper, and the final report.   *)
(*                                                                         *)
(* Paths are the numbers 1..NumPaths; their numeric order stands for the   *)
(* string order of the path names.  A file's content is a sequence of      *)
(* bytes; its size is the length of that sequence.                         *)
(***************************************************************************)
EXTENDS Integers, Sequences, FiniteSets, TLC

\* ------------------------------------------------------------------ bounds
NumPaths   == 4     \* distinct paths a run can meet
MaxEntries == 4     \* entries all the walks of a run hold, together
MaxRoots   == 2     \* root directories on the command line
MaxFileLen == 2     \* longest file content met during a walk
MaxCmpLen  == 4     \* longest content handed to the comparator on its own
BufferSize == 2     \* bufferSize: os.Getpagesize(), scaled down to the file lengths
NumTreePaths == 6   \* files of the tree walked as a whole

Bytes == {0, 1}
Paths == 1..NumPaths

RECURSIVE SeqsUpTo(_)
SeqsUpTo(n) ==
    IF n = 0 THEN {<<>>}
    ELSE LET shorter == SeqsUpTo(n - 1)
         IN  shorter \cup {Append(s, b) : s \in {t \in shorter : Len(t) = n - 1}, b \in Bytes}

Contents    == SeqsUpTo(MaxFileLen)
CmpContents == SeqsUpTo(MaxCmpLen)

Min(S) == CHOOSE x \in S : \A y \in S : x <= y

\* a Go map: a function whose domain is the set of keys present
EmptyMap == <<>>
Put(m, k, v) == [x \in (DOMAIN m) \cup {k} |-> IF x = k THEN v ELSE m[x]]

\* ------------------------------------------------------------ the comparator
NoErr == "nil"
EOF   == "EOF"

\* a fresh buffer: make([]byte, bufferSize) is all zero
ZeroBuffer == [i \in 1..BufferSize |-> 0]

\* (*os.File).Read on a regular file: up to len(buf) bytes from the offset
\* overwrite the front of buf, the rest of buf keeps what it held; at the end
\* of the file it reads nothing and reports io.EOF
ReadLen(content, off) ==
    IF Len(content) - off < BufferSize THEN Len(content) - off ELSE BufferSize

ReadErr(content, off) == IF ReadLen(content, off) = 0 THEN EOF ELSE NoErr

ReadBuf(content, off, buf) ==
    [i \in 1..BufferSize |-> IF i <= ReadLen(content, off) THEN content[off + i] ELSE buf[i]]

\* mutant of BytesEqual: looks at the first byte only
BytesEqualFirstOnly(ba, bb) == ba[1] = bb[1]

\* mutant of BytesEqual: the two slices compared as references, never equal
BytesEqualByReference(ba, bb) == FALSE

\* bytes.Equal(ba, bb): the whole buffers, whatever the reads returned
BytesEqual(ba, bb) == \A i \in 1..BufferSize : ba[i] = bb[i]

\* the loop of fileContentsHelper, one unfolding per iteration
RECURSIVE HelperLoop(_, _, _, _, _, _)
HelperLoop(a, b, offa, offb, ba, bb) ==
    LET la   == ReadLen(a, offa)
        lb   == ReadLen(b, offb)
        erra == ReadErr(a, offa)
        errb == ReadErr(b, offb)
        na   == ReadBuf(a, offa, ba)
        nb   == ReadBuf(b, offb, bb)
    IN  IF (la > 0 \/ lb > 0) /\ ~BytesEqual(na, nb)
          THEN [same |-> FALSE, err |-> NoErr]
        ELSE IF erra = EOF /\ errb = EOF
          THEN [same |-> TRUE, err |-> NoErr]
        ELSE IF erra # NoErr
          THEN [same |-> FALSE, err |-> erra]
        ELSE IF errb # NoErr
          THEN [same |-> FALSE, err |-> errb]
        ELSE HelperLoop(a, b, offa + la, offb + lb, na, nb)

fileContentsHelper(a, b) == HelperLoop(a, b, 0, 0, ZeroBuffer, ZeroBuffer)

IsPrefix(s, t) == Len(s) <= Len(t) /\ \A i \in 1..Len(s) : s[i] = t[i]

\* ------------------------------------------------------------------- state
VARIABLES
    paranoid,       \* flag -p
    minimumSize,    \* flag -s
    globbing,       \* flag -g
    hashes,         \* maps from digests to paths
    sizes,          \* maps from sizes to paths
    final,          \* maps from paths to duplicate paths
    files,          \* number of files examined
    dupes,          \* number of duplicate files
    wasted,         \* space occupied by duplicates
    stdout,         \* what was printed to standard output, in order
    stderr,         \* what was printed to standard error, in order
    exitCode,       \* exit status once the process has ended, -1 before
    pc,             \* where main is: "start", "walk", "done", "exit"
    rootsLeft,      \* flag.Args() not yet walked
    pending,        \* entries of the root being walked that Walk has yet to visit
    fs,             \* what each path has been seen to be on disk
    observed,       \* history: the paths counted in files, in order
    sumCalls,       \* history: number of checksum calls per path
    cmpCalls,       \* history: the pairs handed to fileContentsMatch, in order
    lookups,        \* history: the pairs (path, entry found in hashes for its digest), in order
    dropped,        \* history: entries a stopped walk never handed to check, with the cause
    errors,         \* history: number of errors check returned to Walk
    openFails,      \* history: number of os.Open calls that failed
    walked,         \* number of entries the walks begun so far hold
    failedRoots,    \* history: number of roots Walk could not open
    fa, fb, res     \* the comparator on its own: two contents and the result

progVars == <<hashes, sizes, final, files, dupes, wasted>>
flagVars == <<paranoid, minimumSize, globbing>>
outVars  == <<stdout, stderr, exitCode>>
histVars == <<observed, sumCalls, cmpCalls, lookups, dropped, errors, openFails>>
cmpVars  == <<fa, fb, res>>
vars == <<paranoid, minimumSize, globbing, hashes, sizes, final, files, dupes,
          wasted, stdout, stderr, exitCode, pc, rootsLeft, pending, fs,
          observed, sumCalls, cmpCalls, lookups, dropped, errors, openFails,
          walked, failedRoots, fa, fb, res>>

\* ------------------------------------------------------------ the file tree
Unseen  == [kind |-> "unseen", content |-> <<>>]
Dir     == [kind |-> "dir", content |-> <<>>]
File(c) == [kind |-> "file", content |-> c]
Entries == {Dir} \cup {File(c) : c \in Contents}

\* what the walk can find at p: anything the first time, the same thing again
CanSee(p) == IF fs[p] = Unseen THEN Entries ELSE {fs[p]}

Size(q) == Len(fs[q].content)

\* ------------------------------------------------------------------- flags
globDefault == "*"
BadPattern  == "["
PdfPattern  == "*.pdf"
Patterns    == {globDefault, PdfPattern, BadPattern}
MinimumSizes == {1, 2}

\* info.Name() of a path: odd paths are named *.pdf, even ones *.txt
IsPdf(p) == p % 2 = 1

\* mutant of MatchErr: no pattern is found to be malformed
MatchErrNever(pattern) == FALSE

\* filepath.Match(pattern, name): the error, and the verdict.  main checks
\* the pattern before any walk, so the error return of check (dupes.go:124-126)
\* is never taken and has no action here.
MatchErr(pattern) == pattern = BadPattern
Match(pattern, p) == pattern = globDefault \/ (pattern = PdfPattern /\ IsPdf(p))

\* ---------------------------------------------------------------- checksum
RECURSIVE SumBytes(_)
SumBytes(c) == IF c = <<>> THEN 0 ELSE c[Len(c)] + SumBytes(SubSeq(c, 1, Len(c) - 1))

\* The digest of a content.  SHA-256 maps the unbounded set of contents to a
\* finite set, so distinct contents can share a digest; the byte sum stands
\* for it here: a function of the content alone, with collisions between
\* contents of one size (<<0,1>>, <<1,0>>) and of different sizes
\* (<<1>>, <<1,0>>), and none between most pairs.
Digest(c) == SumBytes(c)

\* checksum fails only when os.Open fails (the result of io.Copy is dropped,
\* dupes.go:99); reads that fail halfway are not modelled.
\* os.Open can fail for any path at any time (permissions, a file removed
\* while the walk runs): each step draws the set of paths that cannot be opened
OpenFailures == {{}} \cup {{q} : q \in Paths}

\* ------------------------------------------------------------------- check
Walking   == pc = "walk" /\ pending # {}
NextEntry == Min(pending)

IsRegular(ent) == ent.kind = "file"

\* mutant of Filtered: the minimum size is not looked at
FilteredNoMinimum(p, ent) ==
    \/ ent.kind # "file"
    \/ (globbing # "*" /\ ~(globbing = "*.pdf" /\ p % 2 = 1))

\* the early returns of check before files++: not a regular file, too small,
\* or a name the glob does not match
Filtered(p, ent) ==
    \/ ~IsRegular(ent)
    \/ Len(ent.content) < minimumSize
    \/ (globbing # globDefault /\ ~Match(globbing, p))

\* the content read from q while p, found to be ent, is being checked
ContentOf(q, p, ent) == IF q = p THEN ent.content ELSE fs[q].content

\* mutant of Backpatch: the first file of the size is not put into hashes
NoBackpatch(p, ent) == hashes

\* "backpatch new file into hashes": hashes[sum] = dupe
Backpatch(p, ent) ==
    LET first == sizes[Len(ent.content)]
    IN  Put(hashes, Digest(ContentOf(first, p, ent)), first)

Called(calls, q) == [calls EXCEPT ![q] = @ + 1]

\* check returned nil: Walk goes on to the next entry
WalkOn(p) ==
    /\ pending' = pending \ {p}
    /\ UNCHANGED <<dropped, errors>>

\* check returned an error: Walk stops and returns it, main drops it and
\* turns to the next root
WalkStops(p, cause) ==
    /\ pending' = {}
    /\ dropped' = dropped \cup {<<cause, q>> : q \in pending \ {p}}
    /\ errors' = errors + 1

\* Walk reports an error for the entry (a directory it cannot read): check
\* returns it
CheckWalkError ==
    /\ Walking
    /\ LET p == NextEntry IN
        /\ fs[p] \in {Unseen, Dir}
        /\ fs' = [fs EXCEPT ![p] = Dir]
        /\ WalkStops(p, "walk")
    /\ UNCHANGED <<flagVars, progVars, outVars, pc, rootsLeft, walked, failedRoots, cmpVars,
                   observed, sumCalls, cmpCalls, lookups, openFails>>

CheckSkip ==
    /\ Walking
    /\ LET p == NextEntry IN
       \E ent \in CanSee(p) :
        /\ Filtered(p, ent)
        /\ fs' = [fs EXCEPT ![p] = ent]
        /\ WalkOn(p)
    /\ UNCHANGED <<flagVars, progVars, outVars, pc, rootsLeft, walked, failedRoots, cmpVars,
                   observed, sumCalls, cmpCalls, lookups, openFails>>

\* the first file of its size
CheckNewSize ==
    /\ Walking
    /\ LET p == NextEntry IN
       \E ent \in CanSee(p) :
        /\ ~Filtered(p, ent)
        /\ Len(ent.content) \notin DOMAIN sizes
        /\ fs' = [fs EXCEPT ![p] = ent]
        /\ files' = files + 1
        /\ observed' = Append(observed, p)
        /\ sizes' = Put(sizes, Len(ent.content), p)
        /\ WalkOn(p)
    /\ UNCHANGED <<flagVars, hashes, final, dupes, wasted, outVars, pc, rootsLeft, walked, failedRoots,
                   cmpVars, sumCalls, cmpCalls, lookups, openFails>>

\* one of the two checksum calls cannot open its file
CheckSumError ==
    /\ Walking
    /\ LET p == NextEntry IN
       \E ent \in CanSee(p), bad \in OpenFailures :
        /\ ~Filtered(p, ent)
        /\ Len(ent.content) \in DOMAIN sizes
        /\ LET first == sizes[Len(ent.content)] IN
            /\ first \in bad \/ p \in bad
            /\ IF first \in bad
                 THEN /\ UNCHANGED hashes
                      /\ sumCalls' = Called(sumCalls, first)
                 ELSE /\ hashes' = Backpatch(p, ent)
                      /\ sumCalls' = Called(Called(sumCalls, first), p)
        /\ fs' = [fs EXCEPT ![p] = ent]
        /\ files' = files + 1
        /\ observed' = Append(observed, p)
        /\ openFails' = openFails + 1
        /\ WalkStops(p, "io")
    /\ UNCHANGED <<flagVars, sizes, final, dupes, wasted, outVars, pc, rootsLeft, walked, failedRoots,
                   cmpVars, cmpCalls, lookups>>

\* a digest not seen before
CheckNewDigest ==
    /\ Walking
    /\ LET p == NextEntry IN
       \E ent \in CanSee(p) :
        /\ ~Filtered(p, ent)
        /\ Len(ent.content) \in DOMAIN sizes
        /\ LET first   == sizes[Len(ent.content)]
               patched == Backpatch(p, ent)
               sum     == Digest(ent.content)
           IN  /\ sum \notin DOMAIN patched
               /\ hashes' = Put(patched, sum, p)
               /\ sumCalls' = Called(Called(sumCalls, first), p)
        /\ fs' = [fs EXCEPT ![p] = ent]
        /\ files' = files + 1
        /\ observed' = Append(observed, p)
        /\ WalkOn(p)
    /\ UNCHANGED <<flagVars, sizes, final, dupes, wasted, outVars, pc, rootsLeft, walked, failedRoots,
                   cmpVars, cmpCalls, lookups, openFails>>

\* paranoid: fileContentsMatch returns an error (a file that cannot be
\* opened, or the error fileContentsHelper returns)
CheckCompareError ==
    /\ Walking
    /\ paranoid
    /\ LET p == NextEntry IN
       \E ent \in CanSee(p), bad \in OpenFailures :
        /\ ~Filtered(p, ent)
        /\ Len(ent.content) \in DOMAIN sizes
        /\ LET first   == sizes[Len(ent.content)]
               patched == Backpatch(p, ent)
               sum     == Digest(ent.content)
           IN  /\ sum \in DOMAIN patched
               /\ LET dupe == patched[sum]
                      r    == fileContentsHelper(ent.content, ContentOf(dupe, p, ent))
                  IN  /\ \/ (p \in bad \/ dupe \in bad) /\ openFails' = openFails + 1
                         \/ bad = {} /\ r.err # NoErr /\ UNCHANGED openFails
                      /\ cmpCalls' = Append(cmpCalls, <<p, dupe>>)
                      /\ lookups' = Append(lookups, <<p, dupe>>)
               /\ hashes' = patched
               /\ sumCalls' = Called(Called(sumCalls, first), p)
        /\ fs' = [fs EXCEPT ![p] = ent]
        /\ files' = files + 1
        /\ observed' = Append(observed, p)
        /\ WalkStops(p, "io")
    /\ UNCHANGED <<flagVars, sizes, final, dupes, wasted, outVars, pc, rootsLeft, walked, failedRoots,
                   cmpVars>>

\* mutant of Cool: the two paths swapped
CoolSwapped(p, dupe) == <<"cool", dupe, p>>

\* fmt.Printf("cool: %s sha256-collides with %s!\n", path, dupe)
Cool(p, dupe) == <<"cool", p, dupe>>

\* paranoid: same digest, the comparison says different
CheckCollision ==
    /\ Walking
    /\ paranoid
    /\ LET p == NextEntry IN
       \E ent \in CanSee(p) :
        /\ ~Filtered(p, ent)
        /\ Len(ent.content) \in DOMAIN sizes
        /\ LET first   == sizes[Len(ent.content)]
               patched == Backpatch(p, ent)
               sum     == Digest(ent.content)
           IN  /\ sum \in DOMAIN patched
               /\ LET dupe == patched[sum]
                      r    == fileContentsHelper(ent.content, ContentOf(dupe, p, ent))
                  IN  /\ r.err = NoErr
                      /\ ~r.same
                      /\ stdout' = Append(stdout, Cool(p, dupe))
                      /\ cmpCalls' = Append(cmpCalls, <<p, dupe>>)
                      /\ lookups' = Append(lookups, <<p, dupe>>)
               /\ hashes' = patched
               /\ sumCalls' = Called(Called(sumCalls, first), p)
        /\ fs' = [fs EXCEPT ![p] = ent]
        /\ files' = files + 1
        /\ observed' = Append(observed, p)
        /\ WalkOn(p)
    /\ UNCHANGED <<flagVars, sizes, final, dupes, wasted, stderr, exitCode, pc,
                   rootsLeft, walked, failedRoots, cmpVars, openFails>>

\* final[dupe] = append(final[dupe], path)
Collate(fin, dupe, p) ==
    Put(fin, dupe, Append(IF dupe \in DOMAIN fin THEN fin[dupe] ELSE <<>>, p))

\* wasted += bytesize(size), size being the size of the file being checked
\* mutant: counts the size of the original instead
WastedOriginal(w, size, dupeSize) == w + dupeSize

Waste(w, size, dupeSize) == w + size

\* same, err := fileContentsMatch(path, dupe) went through and said same
Verified(r) == r.err = NoErr /\ r.same

\* a duplicate: same digest and, when paranoid, the comparison says same
CheckDuplicate ==
    /\ Walking
    /\ LET p == NextEntry IN
       \E ent \in CanSee(p) :
        /\ ~Filtered(p, ent)
        /\ Len(ent.content) \in DOMAIN sizes
        /\ LET first   == sizes[Len(ent.content)]
               patched == Backpatch(p, ent)
               sum     == Digest(ent.content)
           IN  /\ sum \in DOMAIN patched
               /\ LET dupe == patched[sum]
                      r    == fileContentsHelper(ent.content, ContentOf(dupe, p, ent))
                  IN  /\ paranoid => Verified(r)
                      /\ cmpCalls' = IF paranoid THEN Append(cmpCalls, <<p, dupe>>) ELSE cmpCalls
                      /\ lookups' = Append(lookups, <<p, dupe>>)
                      /\ dupes' = dupes + 1
                      /\ wasted' = Waste(wasted, Len(ent.content), Len(ContentOf(dupe, p, ent)))
                      /\ final' = Collate(final, dupe, p)
               /\ hashes' = patched
               /\ sumCalls' = Called(Called(sumCalls, first), p)
        /\ fs' = [fs EXCEPT ![p] = ent]
        /\ files' = files + 1
        /\ observed' = Append(observed, p)
        /\ WalkOn(p)
    /\ UNCHANGED <<flagVars, sizes, outVars, pc, rootsLeft, walked, failedRoots, cmpVars, openFails>>

\* -------------------------------------------------------------------- main
Max(S) == CHOOSE x \in S : \A y \in S : y <= x

\* mutant of SortStrings: descending
RECURSIVE SortDescending(_)
SortDescending(S) == IF S = {} THEN <<>> ELSE <<Max(S)>> \o SortDescending(S \ {Max(S)})

\* sort.Strings
RECURSIVE SortStrings(_)
SortStrings(S) == IF S = {} THEN <<>> ELSE <<Min(S)>> \o SortStrings(S \ {Min(S)})

sortedDupes == SortStrings(DOMAIN final)

RECURSIVE Flatten(_)
Flatten(ss) == IF ss = <<>> THEN <<>> ELSE Head(ss) \o Flatten(Tail(ss))

\* the lines printed for cluster k: the original, its duplicates, a blank line
ClusterLines(k) == <<<<"line", k>>>> \o [i \in 1..Len(final[k]) |-> <<"line", final[k][i]>>] \o <<<<"blank">>>>

ReportLines == Flatten([i \in 1..Len(sortedDupes) |-> ClusterLines(sortedDupes[i])])

\* mutant of SummaryLines: only hashes is looked at
SummaryLinesHashesOnly ==
    IF Cardinality(DOMAIN hashes) > 0
      THEN <<<<"summary", files, dupes, wasted>>>>
      ELSE <<>>

\* if len(sizes) > 0 || len(hashes) > 0 { fmt.Printf(...) }
SummaryLines ==
    IF Cardinality(DOMAIN sizes) > 0 \/ Cardinality(DOMAIN hashes) > 0
      THEN <<<<"summary", files, dupes, wasted>>>>
      ELSE <<>>

NoRes == [same |-> FALSE, err |-> "none"]

Init ==
    /\ paranoid \in BOOLEAN
    /\ minimumSize \in MinimumSizes
    /\ globbing \in Patterns
    /\ rootsLeft \in 0..MaxRoots
    /\ hashes = EmptyMap
    /\ sizes = EmptyMap
    /\ final = EmptyMap
    /\ files = 0
    /\ dupes = 0
    /\ wasted = 0
    /\ stdout = <<>>
    /\ stderr = <<>>
    /\ exitCode = -1
    /\ pc = "start"
    /\ pending = {}
    /\ fs = [p \in Paths |-> Unseen]
    /\ observed = <<>>
    /\ sumCalls = [p \in Paths |-> 0]
    /\ cmpCalls = <<>>
    /\ lookups = <<>>
    /\ dropped = {}
    /\ errors = 0
    /\ openFails = 0
    /\ fa = <<>>
    /\ fb = <<>>
    /\ res = NoRes
    /\ walked = 0
    /\ failedRoots = 0

\* flag.Parse, the usage text when no root is given, and the check of -g
Start ==
    /\ pc = "start"
    /\ LET told == IF rootsLeft < 1 THEN Append(stderr, <<"usage">>) ELSE stderr
       IN  IF MatchErr(globbing)
             THEN /\ stderr' = Append(told, <<"error: invalid pattern for -g">>)
                  /\ exitCode' = 1
                  /\ pc' = "exit"
             ELSE /\ stderr' = told
                  /\ pc' = "walk"
                  /\ UNCHANGED exitCode
    /\ UNCHANGED <<flagVars, progVars, stdout, rootsLeft, walked, failedRoots, pending, fs, histVars, cmpVars>>

\* mutant of WalkRootError: the error ends the loop over the roots
WalkRootErrorStops ==
    /\ pc = "walk"
    /\ pending = {}
    /\ rootsLeft > 0
    /\ rootsLeft' = 0
    /\ errors' = errors + 1
    /\ failedRoots' = failedRoots + 1
    /\ UNCHANGED <<flagVars, progVars, outVars, pc, walked, pending, fs, cmpVars,
                   observed, sumCalls, cmpCalls, lookups, dropped, openFails>>

\* filepath.Walk(root, check) with a root that Lstat cannot reach: Walk calls
\* check(root, nil, err), check returns err, Walk returns
WalkRootError ==
    /\ pc = "walk"
    /\ pending = {}
    /\ rootsLeft > 0
    /\ rootsLeft' = rootsLeft - 1
    /\ errors' = errors + 1
    /\ failedRoots' = failedRoots + 1
    /\ UNCHANGED <<flagVars, progVars, outVars, pc, walked, pending, fs, cmpVars,
                   observed, sumCalls, cmpCalls, lookups, dropped, openFails>>

\* filepath.Walk(root, check) begins: the entries under the root
WalkRoot ==
    /\ pc = "walk"
    /\ pending = {}
    /\ rootsLeft > 0
    /\ rootsLeft' = rootsLeft - 1
    /\ pending' \in {S \in SUBSET Paths : walked + Cardinality(S) <= MaxEntries}
    /\ walked' = walked + Cardinality(pending')
    /\ UNCHANGED <<flagVars, progVars, outVars, pc, fs, histVars, failedRoots, cmpVars>>

\* after the last root: the clusters and the summary
Report ==
    /\ pc = "walk"
    /\ pending = {}
    /\ rootsLeft = 0
    /\ stdout' = stdout \o ReportLines \o SummaryLines
    /\ exitCode' = 0
    /\ pc' = "done"
    /\ UNCHANGED <<flagVars, progVars, stderr, rootsLeft, walked, failedRoots, pending, fs, histVars, cmpVars>>

Next ==
    \/ Start
    \/ WalkRootError
    \/ WalkRoot
    \/ CheckWalkError
    \/ CheckSkip
    \/ CheckNewSize
    \/ CheckSumError
    \/ CheckNewDigest
    \/ CheckCompareError
    \/ CheckCollision
    \/ CheckDuplicate
    \/ Report

Spec == Init /\ [][Next]_vars

\* ------------------------------------------------- the comparator on its own
InitCmp ==
    /\ paranoid = TRUE
    /\ minimumSize = 1
    /\ globbing = globDefault
    /\ rootsLeft = 0
    /\ hashes = EmptyMap
    /\ sizes = EmptyMap
    /\ final = EmptyMap
    /\ files = 0
    /\ dupes = 0
    /\ wasted = 0
    /\ stdout = <<>>
    /\ stderr = <<>>
    /\ exitCode = -1
    /\ pc = "compare"
    /\ pending = {}
    /\ fs = [p \in Paths |-> Unseen]
    /\ observed = <<>>
    /\ sumCalls = [p \in Paths |-> 0]
    /\ cmpCalls = <<>>
    /\ lookups = <<>>
    /\ dropped = {}
    /\ errors = 0
    /\ openFails = 0
    /\ fa \in CmpContents
    /\ fb \in CmpContents
    /\ res = NoRes
    /\ walked = 0
    /\ failedRoots = 0

\* fileContentsMatch(pa, pb) on two files that open, of contents fa and fb
fileContentsMatch ==
    /\ pc = "compare"
    /\ res = NoRes
    /\ walked = 0
    /\ res' = fileContentsHelper(fa, fb)
    /\ UNCHANGED <<flagVars, progVars, outVars, pc, rootsLeft, walked, failedRoots, pending, fs, histVars, fa, fb>>

NextCmp == fileContentsMatch

SpecCmp == InitCmp /\ [][NextCmp]_vars

\* ------------------------------------- one root, a tree of readable files
\* A run of dupes -p on a single root whose tree is known from the start:
\* NumTreePaths regular files, walked in the order of their names, every one
\* of them readable (no call of os.Open fails, Walk reports no error).
TreePaths    == 1..NumTreePaths
TreeContents == {<<1>>, <<0, 0>>, <<0, 1>>, <<1, 0>>}

InitTree ==
    /\ paranoid = TRUE
    /\ minimumSize \in MinimumSizes
    /\ globbing = globDefault
    /\ rootsLeft = 1
    /\ hashes = EmptyMap
    /\ sizes = EmptyMap
    /\ final = EmptyMap
    /\ files = 0
    /\ dupes = 0
    /\ wasted = 0
    /\ stdout = <<>>
    /\ stderr = <<>>
    /\ exitCode = -1
    /\ pc = "start"
    /\ pending = {}
    /\ fs \in [TreePaths -> {File(c) : c \in TreeContents}]
    /\ observed = <<>>
    /\ sumCalls = [p \in TreePaths |-> 0]
    /\ cmpCalls = <<>>
    /\ lookups = <<>>
    /\ dropped = {}
    /\ errors = 0
    /\ openFails = 0
    /\ fa = <<>>
    /\ fb = <<>>
    /\ res = NoRes
    /\ walked = 0
    /\ failedRoots = 0

\* filepath.Walk(root, check) begins: every file of the tree is under the root
WalkTree ==
    /\ pc = "walk"
    /\ pending = {}
    /\ rootsLeft > 0
    /\ rootsLeft' = rootsLeft - 1
    /\ pending' = TreePaths
    /\ walked' = walked + Cardinality(pending')
    /\ UNCHANGED <<flagVars, progVars, outVars, pc, fs, histVars, failedRoots, cmpVars>>

NextTree ==
    \/ Start
    \/ WalkTree
    \/ CheckSkip
    \/ CheckNewSize
    \/ CheckNewDigest
    \/ CheckCollision
    \/ CheckDuplicate
    \/ Report

SpecTree == InitTree /\ [][NextTree]_vars

\* ================================================================== claims

\* ------------------------------------------------------------ the clusters
Keys == DOMAIN final

ValuesOf(k) == {final[k][i] : i \in 1..Len(final[k])}

\* how often x stands among the values of all clusters
Occurrences(x) ==
    Cardinality({ki \in {<<k, i>> : k \in Keys, i \in 1..NumPaths * MaxRoots} :
                    ki[2] <= Len(final[ki[1]]) /\ final[ki[1]][ki[2]] = x})

ObservedIdx == 1..Len(observed)
ContentAt(i) == fs[observed[i]].content

\* no path was handed to check twice
DistinctObservations ==
    \A i, j \in ObservedIdx : i # j => observed[i] # observed[j]

\* no two observed files of different content share a digest
NoCollision ==
    \A i, j \in ObservedIdx :
        Digest(ContentAt(i)) = Digest(ContentAt(j)) => ContentAt(i) = ContentAt(j)

FirstWithContent(i) == \A k \in 1..(i - 1) : ContentAt(k) # ContentAt(i)

\* every observed file whose content was observed before stands exactly once
\* among the values, in the cluster of the first file observed with that content
LaterUnderFirst ==
    \A i, j \in ObservedIdx :
        (i < j /\ ContentAt(i) = ContentAt(j) /\ FirstWithContent(i))
            => /\ Occurrences(observed[j]) = 1
               /\ observed[i] \in Keys
               /\ observed[j] \in ValuesOf(observed[i])

\* C1 as stated: for distinct readable qualifying files, in either mode, the
\* later of two files of identical content is recorded exactly once, under
\* the first file observed with that content
C1_Original == (DistinctObservations /\ openFails = 0) => LaterUnderFirst

\* C1 as amended: the same, for observations in which no two files of
\* different content share a digest
C1_LaterUnderFirst ==
    (DistinctObservations /\ openFails = 0 /\ NoCollision) => LaterUnderFirst

\* C1 happens: three distinct files, the first and the third identical, a
\* different one of the same size between them, the third under the first
C1_Witness ==
    /\ DistinctObservations /\ openFails = 0 /\ NoCollision
    /\ Len(observed) = 3
    /\ ContentAt(1) = ContentAt(3)
    /\ ContentAt(2) # ContentAt(1)
    /\ Len(ContentAt(2)) = Len(ContentAt(1))
    /\ observed[1] \in Keys
    /\ final[observed[1]] = <<observed[3]>>

\* C2: in paranoid mode every duplicate on record has the content of the
\* original it is recorded under
C2_ParanoidIdentical ==
    paranoid => \A k \in Keys : \A v \in ValuesOf(k) : fs[v].content = fs[k].content

PairsOf(calls) == {calls[i] : i \in 1..Len(calls)}

\* C5: files of different sizes never meet: no digest lookup finds the entry
\* of a file of another size, no two files of different sizes are handed to
\* the comparator, none is recorded as the duplicate of the other
C5_SizeFilter ==
    /\ \A c \in PairsOf(lookups) \cup PairsOf(cmpCalls) : Size(c[1]) = Size(c[2])
    /\ \A k \in Keys : \A v \in ValuesOf(k) : Size(v) = Size(k)

RECURSIVE SumSizes(_)
SumSizes(seq) == IF seq = <<>> THEN 0 ELSE Size(Head(seq)) + SumSizes(Tail(seq))

RECURSIVE BytesIn(_)
BytesIn(S) ==
    IF S = {} THEN 0 ELSE SumSizes(final[Min(S)]) + BytesIn(S \ {Min(S)})

RECURSIVE ValuesIn(_)
ValuesIn(S) ==
    IF S = {} THEN 0 ELSE Len(final[Min(S)]) + ValuesIn(S \ {Min(S)})

\* C6: wasted is the sum of the sizes of the values of final, dupes is the
\* number of values, in every state
C6_Statistics ==
    /\ wasted = BytesIn(Keys)
    /\ dupes = ValuesIn(Keys)

\* C6 happens: two clusters, the values of sizes 1 and 2
C6_Witness ==
    /\ Cardinality(Keys) = 2
    /\ dupes = 2
    /\ wasted = 3

\* C7: a path stands at most once among the values of all clusters, and a
\* path that is a value is not a key
C7_ClusterShape ==
    \A x \in Paths :
        /\ Occurrences(x) <= 1
        /\ Occurrences(x) >= 1 => x \notin Keys

\* what C8 calls an entry that does not qualify
Excluded(p, ent) ==
    \/ ent.kind # "file"
    \/ Len(ent.content) < minimumSize
    \/ ~Match(globbing, p)

\* a step in which Walk hands its next entry to check
CheckStep == pc = "walk" /\ pending # {} /\ pending' # pending

C8_Frame ==
    CheckStep =>
        IF Excluded(Min(pending), fs'[Min(pending)])
          THEN UNCHANGED <<files, sizes, hashes, final, dupes, wasted>>
          ELSE files' = files + 1

C8_NeverRecorded ==
    \A p \in Paths :
        (fs[p] # Unseen /\ Excluded(p, fs[p]))
            => (p \notin Keys /\ Occurrences(p) = 0)

\* C8: an entry that is no regular file, is smaller than the minimum or does
\* not match the glob changes none of files, sizes, hashes, final, dupes,
\* wasted and is in no cluster; every other entry adds exactly one to files
C8_FilterFrame == []C8_NeverRecorded /\ [][C8_Frame]_vars

\* C8 happens: with a minimum of 2 a file of 1 byte was walked, it was not
\* counted, and files of 2 bytes after it were counted and clustered
C8_Witness ==
    /\ minimumSize = 2
    /\ fs[1] = File(<<1>>)
    /\ files = 2
    /\ dupes = 1

\* the comparison of the last pair handed to fileContentsMatch went through
\* and said different
LastCompareDiffers ==
    /\ Len(cmpCalls') = Len(cmpCalls) + 1
    /\ openFails' = openFails
    /\ LET c == cmpCalls'[Len(cmpCalls')]
       IN  fileContentsHelper(fs'[c[1]].content, fs'[c[2]].content)
               = [same |-> FALSE, err |-> NoErr]

\* C9: in paranoid mode, when the digest of the file being checked is found
\* in hashes and the byte comparison says different, the warning is printed,
\* final, dupes, wasted and sizes stay as they are, the file does not enter
\* hashes, and the walk goes on
C9_Step ==
    LastCompareDiffers =>
        LET c == cmpCalls'[Len(cmpCalls')]
        IN  /\ paranoid
            /\ c[1] = Min(pending)
            /\ stdout' = Append(stdout, <<"cool", c[1], c[2]>>)
            /\ UNCHANGED <<final, dupes, wasted, sizes>>
            /\ \A d \in DOMAIN hashes' :
                   hashes'[d] = c[1] => (d \in DOMAIN hashes /\ hashes[d] = c[1])
            /\ pending' = pending \ {c[1]}
            /\ errors' = errors
            /\ dropped' = dropped

C9_CollisionFrame == [][C9_Step]_vars

\* C9 happens: a warning was printed for two files of one size and one
\* digest, nothing was recorded, and the walk is at its next entry
C9_Witness ==
    /\ paranoid
    /\ Len(stdout) = 1
    /\ stdout[1][1] = "cool"
    /\ Size(stdout[1][2]) = Size(stdout[1][3])
    /\ dupes = 0 /\ Keys = {}
    /\ errors = 0
    /\ pending # {}

\* C10: after an I/O error in checksum or in the comparison the walk of the
\* root goes on: no entry of the root is left out because of it
C10_ErrorIsLocal == \A d \in dropped : d[1] # "io"

Compared == res # NoRes

\* C3: two readable files of different lengths, the shorter a prefix of the
\* longer, are reported not identical, without an error
C3_PrefixRejected ==
    (Compared /\ Len(fa) # Len(fb) /\ (IsPrefix(fa, fb) \/ IsPrefix(fb, fa)))
        => res = [same |-> FALSE, err |-> NoErr]

\* C4: for two readable files of equal length the comparison ends without an
\* error and says identical exactly when the contents are equal
C4_EqualLengthExact ==
    (Compared /\ Len(fa) = Len(fb))
        => (res.err = NoErr /\ (res.same <=> fa = fb))

\* C4 happens: a file of several buffers compared with itself, and two files
\* of equal length that differ only in their last buffer
C4_Witness ==
    /\ Compared
    /\ Len(fa) > BufferSize
    /\ Len(fa) = Len(fb)
    /\ res.same

\* -------------------------------------------------- errors, startup, report
\* C11: an error Walk reports for one entry does not end the walk: no entry
\* of the root is left out because of it
C11_WalkErrorIsLocal == \A d \in dropped : d[1] # "walk"

Warned == \E i \in 1..Len(stderr) : stderr[i][1] = "warning"

\* C12: when the run has ended, every error that came up during it (an entry
\* or a root Walk could not read, a file that could not be opened) has left
\* at least one warning on stderr
C12_ErrorsWarned == (pc = "done" /\ errors > 0) => Warned

\* a step in which Walk fails on the root itself
RootFails == failedRoots' = failedRoots + 1

C13_Step ==
    RootFails =>
        /\ UNCHANGED <<hashes, sizes, final, files, dupes, wasted, observed, fs,
                       stdout, dropped, sumCalls, cmpCalls, lookups>>
        /\ rootsLeft' = rootsLeft - 1
        /\ pending' = {}
        /\ pc' = "walk"

\* every root on the command line has been handed to Walk when the report is
\* printed
C13_AllRootsTried == pc = "done" => rootsLeft = 0

\* C13: a root that cannot be opened adds no observation and changes nothing
\* of what the earlier roots left; the roots after it are still handed to
\* Walk, and the run does not end before every root has been
C13_RootErrorSkipsRoot == []C13_AllRootsTried /\ [][C13_Step]_vars

\* C13 happens: of two roots the first could not be opened, the second was
\* walked and its two files were examined and clustered
C13_Witness ==
    /\ pc = "done"
    /\ failedRoots = 1
    /\ errors = 1
    /\ files = 2
    /\ dupes = 1

Told(line) == \E i \in 1..Len(stderr) : stderr[i] = line

Ended == exitCode # -1

\* C14: started without a root, the program prints the usage text to stderr
\* and ends with status 1, with nothing on stdout
C14_NoRootsExit ==
    (Ended /\ Told(<<"usage">>)) => (exitCode = 1 /\ stdout = <<>>)

\* C15: with a malformed -g pattern the program reports it on stderr and ends
\* with status 1 before any walk: no entry is handed to check, and files,
\* sizes, hashes and final are as they were at the start
C15_BadPatternExits ==
    globbing = "[" =>
        /\ pc \in {"start", "exit"}
        /\ pending = {} /\ walked = 0 /\ errors = 0
        /\ \A p \in Paths : fs[p].kind = "unseen"
        /\ observed = <<>>
        /\ files = 0 /\ sizes = <<>> /\ hashes = <<>> /\ final = <<>>
        /\ stdout = <<>>
        /\ pc = "exit" =>
              /\ exitCode = 1
              /\ Len(stderr) >= 1
              /\ stderr[Len(stderr)] = <<"error: invalid pattern for -g">>

\* C15 happens: a malformed pattern and two roots, the process has ended
C15_Witness ==
    /\ globbing = "["
    /\ rootsLeft = 2
    /\ pc = "exit"
    /\ exitCode = 1

\* the lines of stdout that are the report: what follows the collision
\* warnings, without the summary
IsCool(line)    == line[1] = "cool"
IsSummary(line) == line[1] = "summary"
ReportIdx == {i \in 1..Len(stdout) : ~IsCool(stdout[i]) /\ ~IsSummary(stdout[i])}

\* a line that opens a cluster: the first line of the report, or a line
\* after a blank one
IsHead(i) ==
    /\ i \in ReportIdx
    /\ stdout[i] # <<"blank">>
    /\ (i - 1 \notin ReportIdx \/ stdout[i - 1] = <<"blank">>)

Heads == {i \in ReportIdx : IsHead(i)}

C16_Report ==
    pc = "done" =>
        \* one head per cluster, the heads in ascending order of the originals
        /\ \A k \in Keys : Cardinality({i \in Heads : stdout[i] = <<"line", k>>}) = 1
        /\ \A i \in Heads : stdout[i][2] \in Keys
        /\ \A i, j \in Heads : i < j => stdout[i][2] < stdout[j][2]
        \* under a head its duplicates, as final holds them, then a blank line
        /\ \A i \in Heads :
               LET vs == final[stdout[i][2]]
               IN  /\ i + Len(vs) + 1 \in ReportIdx
                   /\ \A j \in 1..Len(vs) : stdout[i + j] = <<"line", vs[j]>>
                   /\ stdout[i + Len(vs) + 1] = <<"blank">>
        \* and nothing else
        /\ Cardinality(ReportIdx) = Cardinality(Keys) * 2 + dupes

\* final holds the duplicates of an original in the order of their discovery:
\* a step leaves a cluster alone or appends the entry being checked to it
C16_Discovery ==
    /\ \A k \in DOMAIN final :
           /\ k \in DOMAIN final'
           /\ \/ final'[k] = final[k]
              \/ final'[k] = Append(final[k], Min(pending))
    /\ \A k \in DOMAIN final' \ DOMAIN final : final'[k] = <<Min(pending)>>

\* C16: the report lists every cluster once, the clusters in ascending order
\* of their originals whatever the order of discovery; in a cluster the
\* original comes first, its duplicates follow in the order of discovery
C16_ReportOrder == []C16_Report /\ [][C16_Discovery]_vars

\* C16 happens: the cluster of 3 was found before the cluster of 1, and the
\* report has been printed
C16_Witness ==
    /\ pc = "done"
    /\ Keys = {1, 3}
    /\ observed[1] = 3
    /\ stdout[1] = <<"line", 1>>

SummaryIdx == {i \in 1..Len(stdout) : IsSummary(stdout[i])}

\* C17: files is 0 exactly when sizes and hashes are both empty; the report of
\* a run that examined no file has no summary line, the report of any other
\* run ends with the one summary line, holding files, dupes and wasted
C17_SummaryRule ==
    /\ files = 0 <=> (DOMAIN sizes = {} /\ DOMAIN hashes = {})
    /\ pc = "done" =>
          IF files = 0
            THEN SummaryIdx = {}
            ELSE /\ SummaryIdx = {Len(stdout)}
                 /\ stdout[Len(stdout)] = <<"summary", files, dupes, wasted>>

\* C17 happens: one file was examined, no digest was ever computed, and the
\* summary was printed
C17_Witness ==
    /\ pc = "done"
    /\ files = 1
    /\ DOMAIN hashes = {}
    /\ stdout = <<<<"summary", 1, 0, 0>>>>

C18_Step ==
    \A d \in DOMAIN hashes : d \in DOMAIN hashes' /\ hashes'[d] = hashes[d]

\* C18: a digest that maps to a path in hashes keeps mapping to that path:
\* no step removes the key or changes its path
C18_InsertIfAbsent == [][C18_Step]_vars

\* the number of files observed with the size of p, p itself left out
OthersOfSize(p) ==
    Cardinality({i \in ObservedIdx : observed[i] # p /\ Size(observed[i]) = Size(p)})

FirstOfSize(i) == \A k \in 1..(i - 1) : Size(observed[k]) # Size(observed[i])

\* C19: checksum is called on a file only once another observed file has its
\* size, and sizes maps each size to the first file observed with it
C19_LazyDigest ==
    /\ \A p \in Paths : sumCalls[p] > 0 => OthersOfSize(p) >= 1
    /\ \A i \in ObservedIdx :
           FirstOfSize(i) =>
               /\ Size(observed[i]) \in DOMAIN sizes
               /\ sizes[Size(observed[i])] = observed[i]

\* C20: checksum is called at most once on any path during a run
C20_DigestOnce == \A p \in Paths : sumCalls[p] <= 1

\* ------------------------------------------- collisions, revisits, the modes
Cools == {stdout[i] : i \in {j \in 1..Len(stdout) : stdout[j][1] = "cool"}}

InSizes(q)  == \E z \in DOMAIN sizes : sizes[z] = q
InHashes(q) == \E d \in DOMAIN hashes : hashes[d] = q

\* a file that produced a collision warning is in neither sizes nor hashes
C21_NotIndexed ==
    paranoid => \A c \in Cools : ~InSizes(c[2]) /\ ~InHashes(c[2])

\* a step in which check examines a readable file z
Examines(z) ==
    /\ pc = "walk" /\ pending # {} /\ z = Min(pending)
    /\ observed' = Append(observed, z)
    /\ openFails' = openFails

\* a file with the content of one that collided with X is compared against X,
\* collides with it too, and is recorded nowhere
C21_Step ==
    \A c \in Cools : \A z \in DOMAIN fs :
        (paranoid /\ Examines(z) /\ z # c[2] /\ fs'[z] = fs[c[2]])
            => /\ cmpCalls' = Append(cmpCalls, <<z, c[3]>>)
               /\ stdout' = Append(stdout, <<"cool", z, c[3]>>)
               /\ UNCHANGED <<final, dupes, wasted, sizes>>
               /\ \A d \in DOMAIN hashes' : hashes'[d] # z

\* C21: in paranoid mode a file Y that produced a collision warning against
\* X is in neither sizes nor hashes, and a file Z observed later with the
\* content of Y is compared against X, not Y: it produces a warning against X
\* and is recorded as the duplicate of no file
C21_CollisionRepeats == []C21_NotIndexed /\ [][C21_Step]_vars

\* C22: no path is recorded as a duplicate of itself, whatever the roots: no
\* cluster holds its own key, and no file adds to dupes or wasted by being
\* matched against itself
C22_NoSelfMatch ==
    /\ \A k \in Keys : k \notin ValuesOf(k)
    /\ \A c \in PairsOf(lookups) : c[1] # c[2]

\* check without -p, as a function: the maps and counters after check has
\* examined the readable file p in the state st
PlainStart ==
    [sizes |-> EmptyMap, hashes |-> EmptyMap, final |-> EmptyMap,
     files |-> 0, dupes |-> 0, wasted |-> 0]

checkPlain(st, p) ==
    LET size    == Len(fs[p].content)
        counted == [st EXCEPT !.files = @ + 1]
    IN  IF size \notin DOMAIN st.sizes
          THEN [counted EXCEPT !.sizes = Put(@, size, p)]
        ELSE LET first   == st.sizes[size]
                 patched == Put(st.hashes, Digest(fs[first].content), first)
                 sum     == Digest(fs[p].content)
             IN  IF sum \notin DOMAIN patched
                   THEN [counted EXCEPT !.hashes = Put(patched, sum, p)]
                   ELSE [counted EXCEPT !.hashes = patched,
                                        !.dupes  = @ + 1,
                                        !.wasted = @ + size,
                                        !.final  = Collate(@, patched[sum], p)]

\* the run without -p over a sequence of observations
RECURSIVE PlainRun(_)
PlainRun(seq) ==
    IF seq = <<>> THEN PlainStart
    ELSE checkPlain(PlainRun(SubSeq(seq, 1, Len(seq) - 1)), seq[Len(seq)])

Current ==
    [sizes |-> sizes, hashes |-> hashes, final |-> final,
     files |-> files, dupes |-> dupes, wasted |-> wasted]

\* C23: over observations of distinct readable files among which no two of
\* different content share a digest, the run, with -p or without, has the
\* sizes, hashes, final, files, dupes and wasted of the run without -p over
\* the same observations, and has printed no collision warning
C23_ModesAgree ==
    (DistinctObservations /\ openFails = 0 /\ NoCollision)
        => (Current = PlainRun(observed) /\ Cools = {})

\* C23 happens: a run with -p has ended in which, of three files of one size,
\* the second was compared with the first and recorded under it and the third
\* got a digest of its own
C23_Witness ==
    /\ paranoid
    /\ pc = "done"
    /\ DistinctObservations /\ openFails = 0 /\ NoCollision
    /\ Len(observed) = 3
    /\ cmpCalls = <<<<observed[2], observed[1]>>>>
    /\ final = Put(EmptyMap, observed[1], <<observed[2]>>)
    /\ Cardinality(DOMAIN hashes) = 2
    /\ Cardinality(DOMAIN sizes) = 1

=============================================================================
